---- MODULE Spec2Model ----
(***************************************************************************)
(* Model of mcp-server-port-cleaner (src/index.ts): the CallTool request   *)
(* handler, PortCleanerService.handlePortClean and the helpers it calls.   *)
(*                                                                         *)
(* Text is modelled as a sequence of symbols.  A symbol is a chunk of      *)
(* non-blank characters ("node", "4321", "LISTENING"), a blank (SP, CR) or *)
(* the line feed NL.  A JavaScript string is therefore a sequence of       *)
(* symbols and the empty string is << >>.  The external commands (lsof,    *)
(* netstat, kill, taskkill) are the environment: their output and their    *)
(* exit status are chosen nondeterministically.                            *)
(***************************************************************************)
EXTENDS Integers, Sequences, FiniteSets, TLC

\* Number of lines the lookup tool prints at most.
MaxLines == 2

SP == " "
CR == "\r"
NL == "\n"

\* The JavaScript value undefined.  No tool output contains this symbol.
Undefined == <<"<undefined>">>

----------------------------------------------------------------------------
(* Configuration *)

\* src/index.ts:18-25.  common is new Set([...Array(1024).keys()]).
SYSTEM_PORTS ==
  [ win32  |-> {21, 22, 23, 25, 53, 80, 110, 443, 3389, 593, 445, 135, 139, 1433},
    darwin |-> {22, 53, 80, 443, 123, 445, 548, 88},
    linux  |-> {22, 25, 53, 80, 110, 123, 21, 23, 3389},
    common |-> 0..1023 ]

\* Values of process.platform the service may run on; freebsd has no entry
\* in SYSTEM_PORTS.
Platforms == {"win32", "darwin", "linux", "freebsd"}

\* Ports a request may name (all within the schema's 1..65535).
Ports == {22, 1023, 1024, 1433, 3389, 8080}

----------------------------------------------------------------------------
(* Output of the lookup tool *)

LsofHeader ==
  <<"COMMAND", SP, "PID", SP, "USER", SP, "FD", SP, "TYPE", SP, "DEVICE", SP,
    "SIZE/OFF", SP, "NODE", SP, "NAME">>

LsofRowA ==
  <<"node", SP, SP, "4321", SP, "alice", SP, "23u", SP, "IPv4", SP, "0x1f", SP,
    "0t0", SP, "TCP", SP, "*:8080", SP, "(LISTEN)">>

LsofRowB ==
  <<"nginx", SP, "100", SP, "root", SP, "6u", SP, "IPv6", SP, "0x2a", SP,
    "0t0", SP, "TCP", SP, "*:8080", SP, "(LISTEN)">>

\* A row cut after its first column.
LsofTruncated == <<"node">>

NetstatRowA ==
  <<SP, SP, "TCP", SP, "0.0.0.0:8080", SP, "0.0.0.0:0", SP, "LISTENING", SP,
    "4321", CR>>

NetstatRowB ==
  <<SP, SP, "TCP", SP, "[::]:8080", SP, "[::]:0", SP, "LISTENING", SP,
    "100", CR>>

NetstatEstablished ==
  <<SP, SP, "TCP", SP, "127.0.0.1:8080", SP, "127.0.0.1:5001", SP,
    "ESTABLISHED", SP, "77", CR>>

\* A listening row cut before its PID column.
NetstatTruncated == <<SP, SP, "TCP", SP, "0.0.0.0:8080", SP, "LISTENING">>

SampleLines(plat) ==
  IF plat = "win32"
    THEN {NetstatRowA, NetstatRowB, NetstatEstablished, NetstatTruncated}
    ELSE {LsofHeader, LsofRowA, LsofRowB, LsofTruncated}

RECURSIVE Unlines(_)
\* Every line the tool prints ends with a line feed.
Unlines(ls) ==
  IF ls = << >> THEN << >> ELSE Head(ls) \o <<NL>> \o Unlines(Tail(ls))

\* What execSync(...) does: it returns the tool's standard output, or throws
\* when the command exits abnormally.
ToolOutputs(plat) ==
  { [ok |-> TRUE, text |-> Unlines(ls)] :
      ls \in UNION { [1..n -> SampleLines(plat)] : n \in 0..MaxLines } }
  \cup { [ok |-> FALSE, text |-> << >>] }

----------------------------------------------------------------------------
(* String functions of JavaScript *)

IsSpace(c) == c \in {SP, CR, "\t", NL}

RECURSIVE SplitFrom(_, _, _, _, _)
SplitFrom(s, sep, i, cur, acc) ==
  IF i > Len(s) THEN Append(acc, cur)
  ELSE IF s[i] = sep THEN SplitFrom(s, sep, i + 1, << >>, Append(acc, cur))
  ELSE SplitFrom(s, sep, i + 1, Append(cur, s[i]), acc)

\* s.split(sep) for a one-symbol separator: "" splits into [""].
Split(s, sep) == SplitFrom(s, sep, 1, << >>, << >>)

\* Variant: the .filter(Boolean) step left out.
FilterBooleanOmitted(ls) == ls

\* array.filter(Boolean) on strings: the empty string is falsy.
FilterBoolean(ls) == SelectSeq(ls, LAMBDA l : l # << >>)

\* s.includes(w), for a w that is one symbol of the text.
Includes(s, w) == \E i \in 1..Len(s) : s[i] = w

\* s.trim()
Trim(s) ==
  LET keep == { i \in 1..Len(s) : ~IsSpace(s[i]) }
  IN  IF keep = {} THEN << >>
      ELSE LET lo == CHOOSE i \in keep : \A j \in keep : i <= j
               hi == CHOOSE i \in keep : \A j \in keep : j <= i
           IN  SubSeq(s, lo, hi)

RECURSIVE SplitWsFrom(_, _, _, _, _)
SplitWsFrom(s, i, cur, acc, inSep) ==
  IF i > Len(s) THEN Append(acc, cur)
  ELSE IF IsSpace(s[i])
    THEN IF inSep THEN SplitWsFrom(s, i + 1, cur, acc, TRUE)
         ELSE SplitWsFrom(s, i + 1, << >>, Append(acc, cur), TRUE)
  ELSE SplitWsFrom(s, i + 1, Append(cur, s[i]), acc, FALSE)

\* s.split(/\s+/)
SplitWs(s) == SplitWsFrom(s, 1, << >>, << >>, FALSE)

\* parts[i], with JavaScript's 0-based index: undefined past the end.
At(parts, i) == IF i + 1 <= Len(parts) THEN parts[i + 1] ELSE Undefined

\* a || b on string-or-undefined values.
Or(a, b) == IF a = Undefined \/ a = << >> THEN b ELSE a

----------------------------------------------------------------------------
(* PortCleanerService *)

\* One parsed row on win32 (src/index.ts:56-68); the record has no user.
NetstatRecord(line) ==
  LET parts == SplitWs(Trim(line))
  IN  [ pid      |-> Or(At(parts, 4), <<"N/A">>),
        name     |-> At(parts, 1),
        user     |-> Undefined,
        protocol |-> At(parts, 0) ]

\* One parsed row elsewhere (src/index.ts:75-92).
LsofRecord(line) ==
  LET parts == SplitWs(Trim(line))
  IN  [ pid      |-> At(parts, 1),
        name     |-> At(parts, 0),
        user     |-> At(parts, 2),
        protocol |-> At(parts, 7) ]

\* getProcessInfoByPort: threw is TRUE when execSync throws, and value is the
\* array returned otherwise.
getProcessInfoByPort(plat, out) ==
  IF ~out.ok THEN [threw |-> TRUE, value |-> << >>]
  ELSE LET lines == FilterBoolean(Split(out.text, NL))
           listening == SelectSeq(lines, LAMBDA l : Includes(l, "LISTENING"))
           rows == SelectSeq(lines, LAMBDA l : ~Includes(l, "PID"))
       IN  IF plat = "win32"
             THEN [ threw |-> FALSE,
                    value |-> [i \in 1..Len(listening) |->
                                 NetstatRecord(listening[i])] ]
             ELSE [ threw |-> FALSE,
                    value |-> [i \in 1..Len(rows) |-> LsofRecord(rows[i])] ]

\* Variant: killProcess without its try/catch, so a failed command rejects.
killProcessNoCatch(execOk) == IF execOk THEN "true" ELSE "rejected"

\* The promise killProcess(pid) settles to, given whether the kill command
\* exited normally: the catch turns a failure into false.
killProcess(execOk) == IF execOk THEN "true" ELSE "false"

\* `kill -9 undefined` and `taskkill /F /PID N/A /T` always exit abnormally;
\* any other kill may succeed or fail (no such process, no permission).
ExecOutcomes(pid) ==
  IF pid = Undefined \/ pid = <<"N/A">> THEN {FALSE} ELSE BOOLEAN

\* Variant: only the platform's own set is consulted.
isSystemPortNoCommon(plat, port) ==
  plat \in DOMAIN SYSTEM_PORTS /\ port \in SYSTEM_PORTS[plat]

\* Variant: only the common set is consulted.
isSystemPortCommonOnly(plat, port) == port \in SYSTEM_PORTS.common

\* isSystemPort: SYSTEM_PORTS[platform]?.has(port) is undefined, hence falsy,
\* for a platform the table has no entry for.
isSystemPort(plat, port) ==
  \/ port \in SYSTEM_PORTS.common
  \/ plat \in DOMAIN SYSTEM_PORTS /\ port \in SYSTEM_PORTS[plat]

\* One text segment of a response.  msg names the template, port is <<p>> when
\* the template prints the port, detail is the error message it prints, pids
\* and rows are the lists it prints.
Segment(msg, port, detail, pids, rows) ==
  [msg |-> msg, port |-> port, detail |-> detail, pids |-> pids, rows |-> rows]

Response(kind, isError, content) ==
  [kind |-> kind, isError |-> isError, content |-> content]

NoResponse == Response("none", FALSE, << >>)

\* `PID: ${p.pid}, ... ${p.name || 'none'} ...`
DisplayRow(p) ==
  [ pid      |-> p.pid,
    name     |-> Or(p.name, <<"none">>),
    user     |-> Or(p.user, <<"none">>),
    protocol |-> Or(p.protocol, <<"none">>) ]

\* infos.map((info) => info.pid)
Pids(infos) == [i \in 1..Len(infos) |-> infos[i].pid]

\* processes.map((p) => `PID: ${p.pid}, ...`)
DisplayRows(infos) == [i \in 1..Len(infos) |-> DisplayRow(infos[i])]

\* A settled or pending promise.
Fulfilled(v) == [settled |-> "fulfilled", value |-> v]
Rejected(detail) ==
  [settled |-> "rejected", value |-> Response("rejected", TRUE,
     <<Segment("error", << >>, detail, << >>, << >>)>>)]
Pending == [settled |-> "pending", value |-> NoResponse]

\* Message of the Error execSync throws.
LookupError == <<"Command failed">>

\* Variant: the lookup wrapped in a try whose catch yields no occupants.
handleSystemPortRequestSwallow(plat, port, out) ==
  LET processes == getProcessInfoByPort(plat, out)
      found == IF processes.threw THEN << >> ELSE processes.value
  IN  Fulfilled(Response("warning", FALSE,
        <<Segment("systemPortWarning", <<port>>, << >>,
                  Pids(found), DisplayRows(found))>>))

\* handleSystemPortRequest: the lookup is not inside any try.
handleSystemPortRequest(plat, port, out) ==
  LET processes == getProcessInfoByPort(plat, out)
  IN  IF processes.threw THEN Rejected(LookupError)
      ELSE Fulfilled(Response("warning", FALSE,
             <<Segment("systemPortWarning", <<port>>, << >>,
                       Pids(processes.value),
                       DisplayRows(processes.value))>>))

\* Variant: isError set only when nothing was killed.
formatResponseAllFailed(results, port) ==
  Response("formatted", Len(results.killedPids) = 0,
    << IF Len(results.killedPids) > 0
         THEN Segment("terminated", << >>, << >>, results.killedPids, << >>)
         ELSE Segment("noProcessFound", << >>, << >>, << >>, << >>),
       IF Len(results.failedPids) > 0
         THEN Segment("cannotTerminate", << >>, << >>, results.failedPids, << >>)
         ELSE Segment("", << >>, << >>, << >>, << >>) >>)

\* formatResponse
formatResponse(results, port) ==
  LET successMsg ==
        IF Len(results.killedPids) > 0
          THEN Segment("terminated", << >>, << >>, results.killedPids, << >>)
          ELSE Segment("noProcessFound", << >>, << >>, << >>, << >>)
      errorMsg ==
        IF Len(results.failedPids) > 0
          THEN Segment("cannotTerminate", << >>, << >>, results.failedPids, << >>)
          ELSE Segment("", << >>, << >>, << >>, << >>)
  IN  Response("formatted", Len(results.failedPids) > 0, <<successMsg, errorMsg>>)

\* The catch of handlePortClean (src/index.ts:132-139).
CleanFailed(detail) ==
  Response("cleanFailed", TRUE,
    <<Segment("cleanFailed", << >>, detail, << >>, << >>)>>)

\* handlePortClean up to its await of processTermination: the path taken, the
\* promise it returns so far, and the occupants found.
handlePortClean(plat, port, out) ==
  IF isSystemPort(plat, port)
    THEN [ path |-> "system", infos |-> << >>,
           promise |-> handleSystemPortRequest(plat, port, out) ]
    ELSE LET infos == getProcessInfoByPort(plat, out)
         IN  IF infos.threw
               THEN [ path |-> "normal", infos |-> << >>,
                      promise |-> Fulfilled(CleanFailed(LookupError)) ]
             ELSE IF Len(infos.value) = 0
               THEN [ path |-> "normal", infos |-> << >>,
                      promise |-> Fulfilled(Response("notOccupied", FALSE,
                        <<Segment("portNotOccupied", <<port>>, << >>, << >>, << >>)>>)) ]
             ELSE [ path |-> "normal", infos |-> infos.value, promise |-> Pending ]

\* Variant: Promise.race in place of Promise.all.
PromiseAnySettled(att) == \E i \in 1..Len(att) : att[i] # "pending"

\* Promise.all over the kill promises: it settles once one of them has
\* rejected or all of them are fulfilled.
PromiseAllSettled(att) ==
  \/ \E i \in 1..Len(att) : att[i] = "rejected"
  \/ \A i \in 1..Len(att) : att[i] \in {"true", "false"}

\* Variant: results pushed to a shared array as each kill completes.
PromiseAllResultsByCompletion(pids, att, done) ==
  [k \in 1..Len(done) |->
     [pid |-> pids[done[k]], success |-> att[done[k]] = "true"]]

\* The array Promise.all resolves to: one { pid, success } per input pid, in
\* the order of the input, whatever the order of completion.
PromiseAllResults(pids, att, done) ==
  [i \in 1..Len(pids) |-> [pid |-> pids[i], success |-> att[i] = "true"]]

\* processTermination, after its await (src/index.ts:184-190).
processTermination(pids, att, done) ==
  LET rs == PromiseAllResults(pids, att, done)
      killed == SelectSeq(rs, LAMBDA r : r.success)
      failed == SelectSeq(rs, LAMBDA r : ~r.success)
  IN  [ killedPids |-> Pids(killed), failedPids |-> Pids(failed) ]

NoResults == [killedPids |-> << >>, failedPids |-> << >>]

\* The CallTool handler's treatment of the promise handlePortClean returned:
\* awaited inside its try (line 302), or returned as it is (line 294).
Dispatch(awaited, promise) ==
  IF promise.settled = "rejected" /\ awaited
    THEN Response("serviceError", TRUE,
           <<Segment("serviceError", << >>, promise.value.content[1].detail,
                     << >>, << >>)>>)
    ELSE promise.value

----------------------------------------------------------------------------
(* State *)

VARIABLES
  platform,   \* process.platform
  phase,      \* "idle", "killing" while handlePortClean awaits the kills,
              \* "responded" once the handler has its response
  call,       \* the request being handled: tool name and port
  awaited,    \* whether the handler awaits handlePortClean
  toolOut,    \* what the lookup command produced for this request
  path,       \* branch handlePortClean took: "none", "system", "normal"
  infos,      \* occupants found on the normal path
  attempts,   \* attempts[i]: promise of killProcess(pids[i])
  execd,      \* execd[i]: exit of the i-th kill command: "none", "ok", "fail"
  order,      \* indices of the kill commands in the order they completed
  killCalls,  \* pids passed to killProcess during this request
  results,    \* value processTermination returned
  response,   \* response of the request
  prevEmpty   \* <<p>> when the request before this one was a port_clean of
              \* port p answered "not occupied", << >> otherwise

vars ==
  <<platform, phase, call, awaited, toolOut, path, infos, attempts, execd,
    order, killCalls, results, response, prevEmpty>>

NoOutput == [ok |-> TRUE, text |-> << >>]

Init ==
  /\ platform \in Platforms
  /\ phase = "idle"
  /\ call = [name |-> "none", port |-> 0]
  /\ awaited = TRUE
  /\ toolOut = NoOutput
  /\ path = "none"
  /\ infos = << >>
  /\ attempts = << >>
  /\ execd = << >>
  /\ order = << >>
  /\ killCalls = << >>
  /\ results = NoResults
  /\ response = NoResponse
  /\ prevEmpty = << >>

\* A request that finishes without starting any kill.
Finish(name, port, out, p, r) ==
  /\ phase' = "responded"
  /\ call' = [name |-> name, port |-> port]
  /\ toolOut' = out
  /\ path' = p
  /\ infos' = << >>
  /\ attempts' = << >>
  /\ execd' = << >>
  /\ order' = << >>
  /\ killCalls' = << >>
  /\ results' = NoResults
  /\ response' = r
  /\ UNCHANGED <<platform, prevEmpty>>

\* case 'port_scan' (src/index.ts:269-288)
CallPortScan ==
  /\ phase = "idle"
  /\ \E port \in Ports, out \in ToolOutputs(platform) :
       LET found == getProcessInfoByPort(platform, out)
       IN  /\ awaited' = TRUE
           /\ Finish("port_scan", port, out, "none",
                IF found.threw
                  THEN Response("serviceError", TRUE,
                         <<Segment("serviceError", << >>, LookupError, << >>, << >>)>>)
                  ELSE Response("scan", FALSE,
                         <<Segment("portUsage", <<port>>, << >>, << >>,
                                   DisplayRows(found.value))>>))

\* default: (src/index.ts:304-308)
CallUnsupported ==
  /\ phase = "idle"
  /\ \E port \in Ports :
       /\ awaited' = TRUE
       /\ Finish("other", port, NoOutput, "none",
            Response("unsupported", TRUE,
              <<Segment("unsupportedTool", << >>, <<"other">>, << >>, << >>)>>))

\* case 'port_clean' with metadata.requiresConfirmation and an action other
\* than confirm_cleanup (src/index.ts:291-299)
CallPortCleanCancelled ==
  /\ phase = "idle"
  /\ \E port \in Ports :
       /\ awaited' = FALSE
       /\ Finish("port_clean", port, NoOutput, "none",
            Response("cancelled", FALSE,
              <<Segment("cancelled", << >>, << >>, << >>, << >>)>>))

\* case 'port_clean' reaching handlePortClean: confirmed (line 294, not
\* awaited) or without requiresConfirmation (line 302, awaited).  The handler
\* runs to its response, or to the await of the kills, which have all been
\* started by then (pids.map calls killProcess for every pid).
CallPortClean ==
  /\ phase = "idle"
  /\ \E port \in Ports, out \in ToolOutputs(platform), aw \in BOOLEAN :
       LET h == handlePortClean(platform, port, out)
       IN  /\ awaited' = aw
           /\ IF h.promise.settled = "pending"
                THEN /\ phase' = "killing"
                     /\ call' = [name |-> "port_clean", port |-> port]
                     /\ toolOut' = out
                     /\ path' = h.path
                     /\ infos' = h.infos
                     /\ attempts' = [i \in 1..Len(h.infos) |-> "pending"]
                     /\ execd' = [i \in 1..Len(h.infos) |-> "none"]
                     /\ order' = << >>
                     /\ killCalls' = Pids(h.infos)
                     /\ results' = NoResults
                     /\ response' = NoResponse
                     /\ UNCHANGED <<platform, prevEmpty>>
                ELSE Finish("port_clean", port, out, h.path,
                            Dispatch(aw, h.promise))

\* One kill command exits and the promise of its killProcess settles.
KillSettles ==
  /\ phase = "killing"
  /\ \E i \in 1..Len(attempts) :
       /\ attempts[i] = "pending"
       /\ \E execOk \in ExecOutcomes(killCalls[i]) :
            /\ attempts' = [attempts EXCEPT ![i] = killProcess(execOk)]
            /\ execd' = [execd EXCEPT ![i] = IF execOk THEN "ok" ELSE "fail"]
       /\ order' = Append(order, i)
  /\ UNCHANGED <<platform, phase, call, awaited, toolOut, path, infos,
                 killCalls, results, response, prevEmpty>>

\* The await of Promise.all returns or throws, and handlePortClean finishes:
\* formatResponse on the outcome, or its catch on a rejection.
TerminationJoined ==
  /\ phase = "killing"
  /\ PromiseAllSettled(attempts)
  /\ phase' = "responded"
  /\ IF \E i \in 1..Len(attempts) : attempts[i] = "rejected"
       THEN /\ results' = NoResults
            /\ response' = Dispatch(awaited, Fulfilled(CleanFailed(<<"kill failed">>)))
       ELSE /\ results' = processTermination(killCalls, attempts, order)
            /\ response' = Dispatch(awaited,
                 Fulfilled(formatResponse(results', call.port)))
  /\ UNCHANGED <<platform, call, awaited, toolOut, path, infos, attempts,
                 execd, order, killCalls, prevEmpty>>

\* The handler returns and the response goes to the client; nothing of the
\* request is kept (no state is shared between requests).
SendResponse ==
  /\ phase = "responded"
  /\ phase' = "idle"
  /\ call' = [name |-> "none", port |-> 0]
  /\ awaited' = TRUE
  /\ toolOut' = NoOutput
  /\ path' = "none"
  /\ infos' = << >>
  /\ attempts' = << >>
  /\ execd' = << >>
  /\ order' = << >>
  /\ killCalls' = << >>
  /\ results' = NoResults
  /\ response' = NoResponse
  /\ prevEmpty' = IF response.kind = "notOccupied" THEN <<call.port>> ELSE << >>
  /\ UNCHANGED platform

Next ==
  \/ CallPortScan
  \/ CallUnsupported
  \/ CallPortCleanCancelled
  \/ CallPortClean
  \/ KillSettles
  \/ TerminationJoined
  \/ SendResponse

Spec == Init /\ [][Next]_vars

\* The continuation of a settled await always runs: Node's event loop does not
\* starve a resolved promise's microtask.
FairSpec == Spec /\ WF_vars(TerminationJoined)

----------------------------------------------------------------------------
(* Properties *)

Range(f) == { f[i] : i \in DOMAIN f }

\* The platform's supplementary set of well-known ports, empty for a platform
\* that has none.
Supplementary(plat) ==
  CASE plat = "win32"  -> {21, 22, 23, 25, 53, 80, 110, 443, 3389, 593, 445,
                           135, 139, 1433}
    [] plat = "darwin" -> {22, 53, 80, 443, 123, 445, 548, 88}
    [] plat = "linux"  -> {22, 25, 53, 80, 110, 123, 21, 23, 3389}
    [] OTHER           -> {}

ProtectedPort(plat, port) == port \in 0..1023 \/ port \in Supplementary(plat)

\* handlePortClean has been called for the current request.
CleanCalled == call.name = "port_clean" /\ path # "none"

\* The lookup tool's output holds at least one row the parser keeps.
Occupied ==
  /\ toolOut.ok
  /\ getProcessInfoByPort(platform, toolOut).value # << >>

\* handlePortClean went through processTermination and formatResponse.
Formatted == phase = "responded" /\ response.kind = "formatted"

\* The pids of the batch whose kill command ended as `how`, in input order.
PidsEnded(how) ==
  LET idx == SelectSeq([i \in 1..Len(killCalls) |-> i],
                       LAMBDA i : execd[i] = how)
  IN  [k \in 1..Len(idx) |-> killCalls[idx[k]]]

\* C1: a clean-up request for a protected port never passes a pid to
\* killProcess, whatever the lookup reports or whether it fails.
C1_ProtectedNeverKills ==
  (CleanCalled /\ ProtectedPort(platform, call.port))
    => /\ killCalls = << >>
       /\ attempts = << >>
       /\ phase # "killing"
       /\ results = NoResults

\* C1: a protected port with occupants has been answered without any kill.
C1_Witness ==
  /\ phase = "responded"
  /\ CleanCalled
  /\ ProtectedPort(platform, call.port)
  /\ Occupied
  /\ killCalls = << >>

\* C2 (as stated): killedPids and failedPids partition the requested pids:
\* no pid is in both, and together they are exactly the requested pids.
C2_Partition ==
  Formatted =>
    /\ Range(results.killedPids) \cap Range(results.failedPids) = {}
    /\ Range(results.killedPids) \cup Range(results.failedPids) = Range(killCalls)

\* C3 (as stated): the error flag of the clean-up response is set only if
\* every requested pid failed; one killed pid clears it.
C3_ErrorOnlyIfAllFailed ==
  Formatted => (response.isError => \A i \in 1..Len(execd) : execd[i] = "fail")

\* C3 (amended): the error flag of the clean-up response is set if and only
\* if at least one requested pid failed to terminate.
C3_ErrorIffAnyFailed ==
  Formatted => (response.isError <=> \E i \in 1..Len(execd) : execd[i] = "fail")

\* C3: one pid killed, another failed, and the response has the flag set.
C3_Witness ==
  /\ Formatted
  /\ \E i \in 1..Len(execd) : execd[i] = "ok"
  /\ \E i \in 1..Len(execd) : execd[i] = "fail"
  /\ response.isError

\* The lookup failed on the protected-port path of a clean-up request.
ProtectedLookupFailed ==
  /\ phase = "responded"
  /\ CleanCalled
  /\ path = "system"
  /\ ~toolOut.ok

\* C4 (as stated): a lookup failure on the protected-port path is swallowed:
\* the warning is returned with no occupants and the error flag clear.
C4_LookupFailureSwallowed ==
  ProtectedLookupFailed =>
    /\ response.kind = "warning"
    /\ ~response.isError
    /\ response.content[1].rows = << >>

\* C4 (amended): a lookup failure on the protected-port path is not
\* swallowed: handlePortClean rejects with the lookup error, no warning is
\* produced, the handler answers the service-error response with the error
\* flag set when it awaits the call and rejects otherwise, and nothing is killed.
C4_LookupFailurePropagates ==
  ProtectedLookupFailed =>
    /\ response.kind = (IF awaited THEN "serviceError" ELSE "rejected")
    /\ response.isError
    /\ response.content[1].detail = LookupError
    /\ killCalls = << >>

\* C4: the lookup failed for a protected port and the handler awaited the call.
C4_Witness == ProtectedLookupFailed /\ awaited /\ response.kind = "serviceError"

NotOccupiedResponse(port) ==
  Response("notOccupied", FALSE,
    <<Segment("portNotOccupied", <<port>>, << >>, << >>, << >>)>>)

\* C5: when the lookup tool prints no lines for a non-protected port, lookup
\* returns the empty sequence without failing and the request is answered
\* "not occupied" with the flag clear, also when it repeats a request so
\* answered; a failing tool gives the error response instead.
C5_EmptyPortNotAnError ==
  /\ (CleanCalled /\ path = "normal" /\ toolOut.ok /\ toolOut.text = << >>)
       => /\ getProcessInfoByPort(platform, toolOut)
               = [threw |-> FALSE, value |-> << >>]
          /\ phase = "responded"
          /\ response = NotOccupiedResponse(call.port)
          /\ killCalls = << >>
  /\ (CleanCalled /\ path = "normal" /\ ~toolOut.ok)
       => /\ phase = "responded"
          /\ response.kind = "cleanFailed"
          /\ response.isError

\* C5: the request before this one found the port empty, and so does this one.
C5_Witness ==
  /\ phase = "responded"
  /\ CleanCalled
  /\ toolOut.ok /\ toolOut.text = << >>
  /\ prevEmpty = <<call.port>>
  /\ response = NotOccupiedResponse(call.port)

\* C6 (as stated): every record lookup returns has a pid that is a non-empty
\* token of the tool's output, so nothing else reaches the termination step.
C6_PidPresent ==
  /\ \A i \in 1..Len(infos) :
       /\ infos[i].pid # Undefined
       /\ Len(infos[i].pid) = 1
       /\ Includes(toolOut.text, infos[i].pid[1])
  /\ \A i \in 1..Len(killCalls) :
       /\ killCalls[i] # Undefined
       /\ Len(killCalls[i]) = 1
       /\ Includes(toolOut.text, killCalls[i][1])

\* C7: handlePortClean treats the port as protected exactly when it is in
\* 0..1023 or in the supplementary set of the platform, whatever occupies it.
C7_ClassifyIffReserved ==
  CleanCalled => (path = "system" <=> ProtectedPort(platform, call.port))

\* C7: a port above 1023 is protected through linux's supplementary set while
\* occupied, and the request was answered with the warning.
C7_Witness ==
  /\ phase = "responded"
  /\ CleanCalled
  /\ platform = "linux"
  /\ call.port = 3389
  /\ path = "system"
  /\ Occupied
  /\ response.kind = "warning"

\* C8: a kill is attempted for every occupant's pid, no attempt rejects, and
\* a failed attempt only puts its pid in failedPids: the batch still ends in
\* the formatted response with every attempt made.
C8_AttemptsIsolated ==
  (CleanCalled /\ path = "normal" /\ infos # << >>) =>
    /\ phase \in {"killing", "responded"}
    /\ killCalls = Pids(infos)
    /\ Len(attempts) = Len(killCalls)
    /\ \A i \in 1..Len(attempts) : attempts[i] # "rejected"
    /\ phase = "responded" =>
         /\ response.kind = "formatted"
         /\ \A i \in 1..Len(execd) :
              /\ execd[i] \in {"ok", "fail"}
              /\ execd[i] = "fail" => killCalls[i] \in Range(results.failedPids)

\* C8: the first kill of a batch failed and the second still ran and succeeded.
C8_Witness ==
  /\ Formatted
  /\ Len(execd) >= 2
  /\ execd[1] = "fail"
  /\ execd[2] = "ok"
  /\ order[1] = 1

AllAttemptsDone == \A i \in 1..Len(attempts) : attempts[i] # "pending"

\* C9: the outcome and the response exist only once every kill attempt of the
\* batch has completed, and once they all have the response is eventually
\* produced.
C9_JoinBeforeAggregate ==
  /\ [](phase = "killing" => results = NoResults /\ response = NoResponse)
  /\ [](Formatted => AllAttemptsDone)
  /\ ((phase = "killing" /\ AllAttemptsDone) ~> phase = "responded")

\* C9: a batch of two attempts has been joined and answered.
C9_Witness ==
  /\ Formatted
  /\ Len(attempts) >= 2
  /\ AllAttemptsDone
  /\ Len(order) = Len(attempts)

\* C10: killedPids, failedPids and the response are determined by the batch
\* and the per-pid results alone, in input order, not by the order in which
\* the attempts completed.
C10_OrderIndependent ==
  Formatted =>
    /\ results = [killedPids |-> PidsEnded("ok"), failedPids |-> PidsEnded("fail")]
    /\ response.content[1].pids = PidsEnded("ok")
    /\ response.content[2].pids = PidsEnded("fail")

\* C10: two different pids, both killed, the second completing first.
C10_Witness ==
  /\ Formatted
  /\ order = <<2, 1>>
  /\ killCalls[1] # killCalls[2]
  /\ execd = <<"ok", "ok">>

====
